---- MODULE Spec2Model ----
(***************************************************************************)
(* Model of browser_session_service.py: the BrowserSessionManager, its     *)
(* encrypted metadata store on disk, its in-memory map of sessions that    *)
(* are mid-login, and the coroutines (create_session, confirm_login,       *)
(* execute_action) that suspend at their awaits and interleave on the      *)
(* event loop.                                                             *)
(*                                                                         *)
(* Strings of the program that the code takes apart or concatenates (user  *)
(* and site identifiers, session keys, directory names) are sequences of   *)
(* character codes.  Time is counted in seconds.                           *)
(***************************************************************************)
EXTENDS Integers, Sequences, FiniteSets, Bags, TLC

(* ------------------------------ bounds -------------------------------- *)
\* how many events reach the service in a behaviour: requests received,
\* advances of the wall clock, changes made to its files from outside
MaxEvents == 3

(* ------------------------- program constants --------------------------- *)
SESSION_TIMEOUT_HOURS == 24 * 7
\* timedelta(hours=SESSION_TIMEOUT_HOURS), in seconds
TTL == SESSION_TIMEOUT_HOURS * 3600

\* the characters the code uses as delimiters
Colon == 58
Underscore == 95

(* ------------------------------ inputs --------------------------------- *)
\* user and site identifiers: "u", "u:v" and "w", "v:w"
UserU == <<117>>
UserUV == <<117, Colon, 118>>
SiteW == <<119>>
SiteVW == <<118, Colon, 119>>

\* the (user_id, site_name) pairs requests are made with
Keys == { <<UserU, SiteVW>>, <<UserUV, SiteW>> }

\* the user_id filters of a listing; <<>> is no filter
UserFilters == { <<>>, UserU }

\* identifiers with the delimiter of the directory names in them: "u" and
\* "u_v" on site "w"
UserU_V == <<117, Underscore, 118>>
ListingKeys == { <<UserU, SiteW>>, <<UserU_V, SiteW>> }
ListingFilters == { <<>>, UserU, UserU_V }

\* for the expiration policy: the times a session was last used at, and how
\* long ago that is
LastUsedTimes == { 0, 59, 86400 }
ExpiryOffsets == { 0, 1, TTL - 1, TTL, TTL + 1, 2 * TTL }

\* for the metadata store: the timestamps of the metadata saved
StoreTimes == { 0, 3599, 86461 }

LoginUrls == { "https://x/login" }

\* action_type and action_data["message"] of an execute request; the last two
\* action types name no branch of _perform_action
ActionTypes == { "get_profile", "post_message", "bogus", "net::ERR_bogus" }
Messages == { "", "hello" }

(* --------------------- identity and directory scheme ------------------- *)
\* f"{user_id}:{site_name}", the key of the active_sessions map
SessionKey(user_id, site_name) == user_id \o <<Colon>> \o site_name

RECURSIVE Digest(_, _)
Digest(s, h) == IF s = <<>> THEN h ELSE Digest(Tail(s), (h * 31 + Head(s)) % 65536)

\* hashlib.sha256(...).hexdigest()[:16]: one name component without
\* delimiter characters, a function of the hashed string
Sha256Hex16(s) == 256 + Digest(s, 7)

\* SESSIONS_DIR / f"{user_id}_{session_hash}_{site_name}"
_get_session_dir(user_id, site_name) ==
    user_id \o <<Underscore>> \o <<Sha256Hex16(SessionKey(user_id, site_name))>>
            \o <<Underscore>> \o site_name

SessionDirs == { _get_session_dir(k[1], k[2]) : k \in Keys }
SessionKeys == { SessionKey(k[1], k[2]) : k \in Keys }

(* --------------------------- encryption codec -------------------------- *)
\* The Fernet token of a plaintext: the payload and the HMAC that
\* authenticates it under the process key.
Hmac(plaintext) == <<"hmac", plaintext>>
_encrypt_data(data) == [payload |-> data, hmac |-> Hmac(data)]

TokenValid(token) == token.hmac = Hmac(token.payload)
\* cipher.decrypt raises InvalidToken unless the HMAC verifies
_decrypt_data(token) == token.payload

(* --------------------------- metadata store ---------------------------- *)
\* mutant of isoformat: the seconds are not written
isoformat_Minutes(t) ==
    [day |-> t \div 86400, hour |-> (t % 86400) \div 3600,
     minute |-> (t % 3600) \div 60, second |-> 0]

\* datetime.isoformat(): the timestamp written out field by field
isoformat(t) ==
    [day |-> t \div 86400, hour |-> (t % 86400) \div 3600,
     minute |-> (t % 3600) \div 60, second |-> t % 60]
\* datetime.fromisoformat()
fromisoformat(s) == s.day * 86400 + s.hour * 3600 + s.minute * 60 + s.second

\* asdict(metadata) with both timestamps replaced by ISO strings, as json.dumps
\* writes it
MetadataDict(metadata) ==
    [user_id |-> metadata.user_id, site_name |-> metadata.site_name,
     created_at |-> isoformat(metadata.created_at),
     last_used |-> isoformat(metadata.last_used),
     is_valid |-> metadata.is_valid, session_data |-> metadata.session_data]

\* SessionMetadata(**metadata_dict) after both timestamps are parsed back
MetadataOf(metadata_dict) ==
    [user_id |-> metadata_dict.user_id, site_name |-> metadata_dict.site_name,
     created_at |-> fromisoformat(metadata_dict.created_at),
     last_used |-> fromisoformat(metadata_dict.last_used),
     is_valid |-> metadata_dict.is_valid, session_data |-> metadata_dict.session_data]

\* what a session directory holds that the service reads: whether the
\* directory exists and its session_metadata.json
NoFile == [kind |-> "absent"]
\* open(metadata_file, 'w') has truncated the file and the dump did not complete
TruncatedFile == [kind |-> "truncated"]
JsonFile(token) == [kind |-> "json", encrypted_metadata |-> token]
NoDir == [exists |-> FALSE, metadata_file |-> NoFile]

\* the value of Optional[SessionMetadata]
None == [kind |-> "None"]
Some(metadata) == [kind |-> "metadata", value |-> metadata]

\* _load_session_metadata on the directory state dir: None when the file
\* does not exist, and None again when anything raises while reading,
\* decrypting or parsing it
_load_session_metadata(dir) ==
    IF dir.metadata_file.kind = "absent" THEN None
    ELSE IF dir.metadata_file.kind # "json" THEN None
    ELSE IF ~TokenValid(dir.metadata_file.encrypted_metadata) THEN None
    ELSE Some(MetadataOf(_decrypt_data(dir.metadata_file.encrypted_metadata)))

\* the outcomes of _save_session_metadata: "ok", or "write_error": the file
\* was opened for writing, which truncates it, and the dump raises
SaveOutcomes == { "ok", "write_error" }

\* the directory state after _save_session_metadata(metadata) ends with outcome
SaveResult(dir, metadata, outcome) ==
    IF outcome = "ok"
    THEN [exists |-> TRUE,
          metadata_file |-> JsonFile(_encrypt_data(MetadataDict(metadata)))]
    ELSE [exists |-> TRUE, metadata_file |-> TruncatedFile]

(* -------------------------- expiration policy -------------------------- *)
\* mutant of _is_session_expired: the age of the session is not looked at
_is_session_expired_FlagOnly(metadata, clock) == ~metadata.is_valid

\* mutant of _is_session_expired: the session expires a second early
_is_session_expired_AtBoundary(metadata, clock) ==
    ~metadata.is_valid \/ clock >= metadata.last_used + TTL

\* _is_session_expired(metadata) when datetime.now() reads clock
_is_session_expired(metadata, clock) ==
    IF ~metadata.is_valid THEN TRUE
    ELSE clock > metadata.last_used + TTL

(* -------------------------------- state -------------------------------- *)
VARIABLES
    now,              \* the wall clock datetime.now() reads
    events,           \* how many events have reached the service
    fs,               \* SESSIONS_DIR: directory name -> directory state
    active_sessions,  \* session key -> context id, 0 when the key is not in the map
    contexts,         \* the browser contexts opened so far, by id
    calls,            \* the requests suspended at an await, in order of arrival
    ret,              \* the response the last step gave to its caller, if it gave one
    invalidated       \* history: the directories of the sessions an execute_action
                      \* has answered "Session invalid" for since their last confirm

vars == <<now, events, fs, active_sessions, contexts, calls, ret, invalidated>>

\* n more events reach the service
Event(n) == events + n <= MaxEvents /\ events' = events + n

\* calls without its i-th element
Resume(i) == SubSeq(calls, 1, i - 1) \o SubSeq(calls, i + 1, Len(calls))

\* the last step answered no request
NoResponse == [op |-> "none"]

\* The status of the HTTP response the route of op gives for what the manager
\* did.  Each route runs the manager inside try ... except Exception as e:
\* raise HTTPException(status_code=500, detail=str(e)), and HTTPException is
\* an Exception: whatever the manager raises, and the HTTPException(404) the
\* delete route raises itself when the manager returned False, leaves as 500.
HttpStatus(op, status_code, detail) ==
    IF op = "delete_session"
    THEN IF detail = "True" THEN 200 ELSE 500
    ELSE IF status_code = 200 THEN 200 ELSE 500

\* A response of the manager: the HTTPException it raised (status_code, detail),
\* or its return value (status_code 200, detail the "status" of the returned
\* dict or the returned boolean); and http_status, what the route makes of it.
Response(op, user_id, site_name, status_code, detail) ==
    [op |-> op, user_id |-> user_id, site_name |-> site_name,
     status_code |-> status_code, detail |-> detail,
     http_status |-> HttpStatus(op, status_code, detail)]

\* a context the engine has just opened on session_dir for the call opened_by
NewContext(session_dir, url, opened_by) ==
    [open |-> TRUE, user_data_dir |-> session_dir, url |-> url, opened_by |-> opened_by]

\* the metadata confirm_login persisted for a session confirmed at time 0
StoredMetadata(user_id, site_name) ==
    [user_id |-> user_id, site_name |-> site_name, created_at |-> 0, last_used |-> 0,
     is_valid |-> TRUE,
     session_data |-> [login_url |-> "https://x/login", confirmed_at |-> isoformat(0)]]

\* the service starts, used with the pairs keys
Start(keys) ==
    /\ now = 0
    /\ events = 0
    \* SESSIONS_DIR.mkdir(exist_ok=True) keeps what an earlier run of the
    \* service persisted: any of the keys may have a session confirmed at time 0
    /\ \E stored \in SUBSET keys :
          fs = [d \in { _get_session_dir(k[1], k[2]) : k \in keys } |->
                  IF \E k \in stored : d = _get_session_dir(k[1], k[2])
                  THEN LET k == CHOOSE k \in stored : d = _get_session_dir(k[1], k[2])
                       IN SaveResult(NoDir, StoredMetadata(k[1], k[2]), "ok")
                  ELSE NoDir]
    /\ active_sessions = [key \in { SessionKey(k[1], k[2]) : k \in keys } |-> 0]
    /\ contexts = <<>>
    /\ calls = <<>>
    /\ ret = NoResponse
    /\ invalidated = {}

Init == Start(Keys)

InitListing == Start(ListingKeys)

(* ------------------------------ environment ---------------------------- *)
\* the wall clock advances: by the timeout exactly, or by a second more
Tick ==
    /\ Event(1)
    /\ \E d \in {TTL, TTL + 1} : now' = now + d
    /\ ret' = NoResponse
    /\ UNCHANGED <<invalidated, fs, active_sessions, contexts, calls>>

\* a byte of a persisted ciphertext is flipped on disk
Tamper(dir) ==
    /\ Event(1)
    /\ fs[dir].metadata_file.kind = "json"
    /\ TokenValid(fs[dir].metadata_file.encrypted_metadata)
    /\ fs' = [fs EXCEPT ![dir].metadata_file.encrypted_metadata.hmac =
                            <<"flipped", @[2]>>]
    /\ ret' = NoResponse
    /\ UNCHANGED <<invalidated, now, active_sessions, contexts, calls>>

(* ----------------------------- create_session -------------------------- *)
\* mutant of CreateCleanup: the except branch leaves the directory in place
CreateCleanup_Kept(dir) == dir

\* shutil.rmtree(session_dir) in the except branch
CreateCleanup(dir) == NoDir

\* self.active_sessions[session_key] = context
StorePending(map, session_key, context) == [map EXCEPT ![session_key] = context]

\* create_session up to its first await on the context:
\* session_dir.mkdir(parents=True, exist_ok=True) has run.  (The launch of the
\* browser by _setup_playwright is taken to succeed.)
CreateBegin(user_id, site_name) ==
    LET session_dir == _get_session_dir(user_id, site_name) IN
    /\ Event(1)
    /\ fs' = [fs EXCEPT ![session_dir].exists = TRUE]
    /\ calls' = Append(calls, [op |-> "create_session", user_id |-> user_id,
                               site_name |-> site_name])
    /\ ret' = NoResponse
    /\ UNCHANGED <<invalidated, now, active_sessions, contexts>>

\* The rest of create_session: new_context, new_page and goto(login_url)
\* either all succeed, and the context is stored in active_sessions, or one
\* raises ("open_error": new_context, no context exists; "goto_error": the
\* context is open), and the except branch removes the directory.
CreateOutcomes == { "ok", "open_error", "goto_error" }

CreateFinish(i, login_url, outcome) ==
    LET c == calls[i]
        session_dir == _get_session_dir(c.user_id, c.site_name)
        session_key == SessionKey(c.user_id, c.site_name)
        context == Len(contexts) + 1
    IN
    /\ c.op = "create_session"
    /\ calls' = Resume(i)
    /\ contexts' = IF outcome = "open_error" THEN contexts
                   ELSE Append(contexts, NewContext(session_dir, login_url, "create_session"))
    /\ IF outcome = "ok"
       THEN /\ active_sessions' = StorePending(active_sessions, session_key, context)
            /\ ret' = Response("create_session", c.user_id, c.site_name, 200,
                               "session_created")
            /\ UNCHANGED fs
       ELSE /\ fs' = [fs EXCEPT ![session_dir] = CreateCleanup(@)]
            /\ ret' = Response("create_session", c.user_id, c.site_name, 500,
                               "Failed to create session")
            /\ UNCHANGED active_sessions
    /\ UNCHANGED <<invalidated, now, events>>

(* ----------------------------- confirm_login --------------------------- *)
\* mutant of GetPending: a key that is not in the map gets the context that
\* was opened last
GetPending_Fallback(map, session_key) ==
    IF map[session_key] # 0 THEN map[session_key] ELSE Len(contexts)

\* self.active_sessions.get(session_key)
GetPending(map, session_key) == map[session_key]

\* mutant of ConfirmMetadata: the two readings of the clock change places
ConfirmMetadata_Swapped(user_id, site_name, current_url, t1, t2) ==
    [user_id |-> user_id, site_name |-> site_name, created_at |-> t2, last_used |-> t1,
     is_valid |-> TRUE,
     session_data |-> [login_url |-> current_url, confirmed_at |-> isoformat(t2)]]

\* the SessionMetadata confirm_login builds; created_at and last_used are two
\* readings of datetime.now(), in this order (confirmed_at, a third reading,
\* is taken to give what the second gave)
ConfirmMetadata(user_id, site_name, current_url, t1, t2) ==
    [user_id |-> user_id, site_name |-> site_name, created_at |-> t1, last_used |-> t2,
     is_valid |-> TRUE,
     session_data |-> [login_url |-> current_url, confirmed_at |-> isoformat(t2)]]

\* confirm_login up to await context.close(): the lookup in active_sessions,
\* and, when a context is found, the metadata is built and saved.  A save
\* that raises ends the call in the except branch.  The clock may advance
\* between the two readings of datetime.now(), by d seconds.
ConfirmBegin(user_id, site_name, d, save) ==
    LET session_key == SessionKey(user_id, site_name)
        session_dir == _get_session_dir(user_id, site_name)
        context == GetPending(active_sessions, session_key)
    IN
    IF context = 0
    THEN /\ Event(1)
         /\ d = 0 /\ save = "ok"
         /\ ret' = Response("confirm_login", user_id, site_name, 404,
                            "No active session found")
         /\ UNCHANGED <<now, fs, active_sessions, contexts, calls, invalidated>>
    ELSE /\ Event(1 + d)
         /\ now' = now + d
         /\ fs' = [fs EXCEPT ![session_dir] =
                     SaveResult(@, ConfirmMetadata(user_id, site_name,
                                                   contexts[context].url,
                                                   now, now + d),
                                save)]
         /\ IF save = "ok"
            THEN /\ calls' = Append(calls, [op |-> "confirm_login", user_id |-> user_id,
                                            site_name |-> site_name, context |-> context])
                 /\ ret' = NoResponse
                 /\ invalidated' = invalidated \ {session_dir}
            ELSE /\ ret' = Response("confirm_login", user_id, site_name, 500,
                                    "Failed to confirm login")
                 /\ UNCHANGED <<calls, invalidated>>
         /\ UNCHANGED <<active_sessions, contexts>>

\* The rest of confirm_login: context.close() returns (closed) or raises;
\* after it, del self.active_sessions[session_key], which raises KeyError when
\* the key is no longer in the map.
ConfirmFinish(i, closed) ==
    LET c == calls[i]
        session_key == SessionKey(c.user_id, c.site_name)
    IN
    /\ c.op = "confirm_login"
    /\ calls' = Resume(i)
    /\ IF closed
       THEN /\ contexts' = [contexts EXCEPT ![c.context].open = FALSE]
            /\ IF active_sessions[session_key] # 0
               THEN /\ active_sessions' = [active_sessions EXCEPT ![session_key] = 0]
                    /\ ret' = Response("confirm_login", c.user_id, c.site_name, 200,
                                       "login_confirmed")
               ELSE /\ ret' = Response("confirm_login", c.user_id, c.site_name, 500,
                                       "Failed to confirm login")
                    /\ UNCHANGED active_sessions
       ELSE /\ ret' = Response("confirm_login", c.user_id, c.site_name, 500,
                               "Failed to confirm login")
            /\ UNCHANGED <<active_sessions, contexts>>
    /\ UNCHANGED <<invalidated, now, events, fs>>

(* ----------------------------- execute_action -------------------------- *)
\* an exception, with the pieces its str() is put together from, or a result
Raise(text) == [raised |-> TRUE, text |-> text]
Return(result) == [raised |-> FALSE, result |-> result]

\* what the browser engine does with the calls of one action: "ok", all of
\* them return; "open_error", new_context raises; "net_error", a navigation
\* raises a net::ERR_ error; "timeout", a call raises a timeout
EngineOutcomes == { "ok", "open_error", "net_error", "timeout" }

EngineCall(engine, result) ==
    IF engine = "net_error" THEN Raise(<<"net::ERR_CONNECTION_RESET at ", "url">>)
    ELSE IF engine = "timeout" THEN Raise(<<"Timeout 30000ms exceeded">>)
    ELSE Return(result)

\* the action types _perform_action has a branch for
HandledActionTypes == { "get_profile", "post_message", "screenshot" }

\* _perform_action: the branch action_type selects, run against the engine
_perform_action(action_type, message, engine) ==
    IF action_type = "get_profile"
    THEN EngineCall(engine, "page_title")
    ELSE IF action_type = "post_message"
    THEN IF message = "" THEN Raise(<<"Message content is required">>)
         ELSE EngineCall(engine, "content")
    ELSE IF action_type = "screenshot"
    THEN EngineCall(engine, "screenshot_path")
    ELSE Raise(<<"Unknown action type: ", action_type>>)

\* the facts "needle in piece" that hold among the strings of the model
SubstringFacts ==
    { <<"net::ERR_", "net::ERR_CONNECTION_RESET at ">>, <<"net::ERR_", "net::ERR_bogus">> }

\* "net::ERR_" in str(e) or "Session expired" in str(e)
IsSessionError(text) ==
    \E i \in 1..Len(text) :
        <<"net::ERR_", text[i]>> \in SubstringFacts
        \/ <<"Session expired", text[i]>> \in SubstringFacts

\* execute_action up to await self._setup_playwright(): the metadata is
\* loaded and checked.  (The check that session_dir exists cannot fail here:
\* the metadata file was just read from it.)
ExecuteBegin(user_id, site_name) ==
    LET session_dir == _get_session_dir(user_id, site_name)
        metadata == _load_session_metadata(fs[session_dir])
    IN
    /\ Event(1)
    /\ IF metadata = None
       THEN /\ ret' = Response("execute_action", user_id, site_name, 404,
                               "Session not found")
            /\ UNCHANGED <<now, fs, active_sessions, contexts, calls>>
       ELSE IF _is_session_expired(metadata.value, now)
       THEN /\ ret' = Response("execute_action", user_id, site_name, 401,
                               "Session expired. Please re-login.")
            /\ UNCHANGED <<now, fs, active_sessions, contexts, calls>>
       ELSE /\ calls' = Append(calls, [op |-> "execute_action",
                                       user_id |-> user_id, site_name |-> site_name,
                                       metadata |-> metadata.value])
            /\ ret' = NoResponse
            /\ UNCHANGED <<now, fs, active_sessions, contexts>>
    /\ UNCHANGED invalidated

\* A response of execute_action to a request for action_type: what Response
\* holds, the action_type asked for and, for HTTPException(500,
\* f"Action failed: {str(e)}"), the text of e.
ExecuteResponse(c, action_type, status_code, detail, text) ==
    Response("execute_action", c.user_id, c.site_name, status_code, detail)
        @@ [action_type |-> action_type, text |-> text]

\* the except branch of execute_action for an exception with this text,
\* raised while the call holds the metadata object c.metadata
ExecuteExcept(c, action_type, text, save) ==
    LET session_dir == _get_session_dir(c.user_id, c.site_name) IN
    IF IsSessionError(text)
    THEN /\ fs' = [fs EXCEPT ![session_dir] =
                     SaveResult(@, [c.metadata EXCEPT !.is_valid = FALSE], save)]
         /\ ret' = IF save = "ok"
                   THEN ExecuteResponse(c, action_type, 401,
                                        "Session invalid. Please re-login.", <<>>)
                   ELSE ExecuteResponse(c, action_type, 0, "OSError", <<>>)
         /\ invalidated' = IF save = "ok" THEN invalidated \cup {session_dir}
                           ELSE invalidated
    ELSE /\ save = "ok"
         /\ ret' = ExecuteResponse(c, action_type, 500, "Action failed", text)
         /\ UNCHANGED <<fs, invalidated>>

\* mutant of Refresh: the timestamp is left as it was loaded
Refresh_Unchanged(metadata, clock) == metadata

\* metadata.last_used = datetime.now(), on the object the call loaded
Refresh(metadata, clock) == [metadata EXCEPT !.last_used = clock]

\* The rest of execute_action: the context is opened, the action is
\* performed, last_used is refreshed and saved, the context is closed and
\* the result returned; whatever raises on the way ends the call in the
\* except branch.  After the save the call touches nothing but its own
\* context, so its last await, context.close(), is part of this step: closed
\* says whether close() returns or raises.  action_type and message are the
\* request's action_type and action_data["message"], which the code reads
\* here for the first time.
ExecuteFinish(i, action_type, message, engine, save, closed) ==
    LET c == calls[i]
        session_dir == _get_session_dir(c.user_id, c.site_name)
        context == IF engine = "open_error" THEN 0 ELSE Len(contexts) + 1
        outcome == IF engine = "open_error" THEN Raise(<<"new_context failed">>)
                   ELSE _perform_action(action_type, message, engine)
        refreshed == Refresh(c.metadata, now)
        completed == ~outcome.raised /\ save = "ok" /\ closed
    IN
    /\ c.op = "execute_action"
    /\ calls' = Resume(i)
    /\ contexts' = IF context = 0 THEN contexts
                   ELSE Append(contexts,
                               [NewContext(session_dir, "about:blank", "execute_action")
                                   EXCEPT !.open = ~completed])
    /\ IF outcome.raised
       THEN /\ closed
            /\ ExecuteExcept(c, action_type, outcome.text, save)
       ELSE /\ fs' = [fs EXCEPT ![session_dir] = SaveResult(@, refreshed, save)]
            /\ save # "ok" => closed
            /\ UNCHANGED invalidated
            /\ ret' = IF completed
                      THEN ExecuteResponse(c, action_type, 200, "action_completed", <<>>)
                               @@ [result |-> outcome.result]
                      ELSE ExecuteResponse(c, action_type, 500, "Action failed",
                                           IF save = "ok" THEN <<"close failed">>
                                           ELSE <<"OSError">>)
    /\ UNCHANGED <<now, events, active_sessions>>

(* ------------------------------ list_sessions -------------------------- *)
\* str.split(sep)
RECURSIVE split(_, _)
split(s, sep) ==
    IF \A i \in 1..Len(s) : s[i] # sep THEN <<s>>
    ELSE LET i == CHOOSE i \in 1..Len(s) :
                      s[i] = sep /\ \A j \in 1..(i - 1) : s[j] # sep
         IN <<SubSeq(s, 1, i - 1)>> \o split(SubSeq(s, i + 1, Len(s)), sep)

\* the state of the directory called name under SESSIONS_DIR
DirState(name) == IF name \in DOMAIN fs THEN fs[name] ELSE NoDir

\* the dict list_sessions appends for a session whose metadata it loaded
ListEntry(metadata, clock) ==
    [user_id |-> metadata.user_id, site_name |-> metadata.site_name,
     created_at |-> isoformat(metadata.created_at),
     last_used |-> isoformat(metadata.last_used),
     is_valid |-> metadata.is_valid,
     is_expired |-> _is_session_expired(metadata, clock)]

\* One turn of the loop of list_sessions, for the directory called name: the
\* entries it appends.  user_id is the filter; None and "" are both false in
\* "if user_id and ...", and are both <<>> here.
ListVisit(name, user_id) ==
    LET parts == split(name, Underscore) IN
    IF Len(parts) < 3 THEN EmptyBag
    ELSE LET dir_user_id == parts[1]
             site_name == parts[3]
             metadata == _load_session_metadata(
                             DirState(_get_session_dir(dir_user_id, site_name)))
         IN IF user_id # <<>> /\ dir_user_id # user_id THEN EmptyBag
            ELSE IF metadata = None THEN EmptyBag
            ELSE SetToBag({ListEntry(metadata.value, now)})

\* the list list_sessions returns, as the bag of its entries (their order is
\* the order of SESSIONS_DIR.iterdir()), after visiting the directories names
RECURSIVE list_sessions(_, _)
list_sessions(names, user_id) ==
    IF names = {} THEN EmptyBag
    ELSE LET name == CHOOSE name \in names : TRUE
         IN ListVisit(name, user_id) (+) list_sessions(names \ {name}, user_id)

\* GET /sessions: list_sessions has no await and runs in one step
ListSessions(user_id) ==
    /\ Event(1)
    /\ ret' = Response("list_sessions", user_id, <<>>, 200, "sessions")
                 @@ [sessions |-> list_sessions({name \in DOMAIN fs : fs[name].exists},
                                                user_id)]
    /\ UNCHANGED <<invalidated, now, fs, active_sessions, contexts, calls>>

(* ----------------------------- delete_session -------------------------- *)
\* delete_session: rmtree of the session directory when it exists
DeleteSession(user_id, site_name) ==
    LET session_dir == _get_session_dir(user_id, site_name) IN
    /\ Event(1)
    /\ IF fs[session_dir].exists
       THEN /\ fs' = [fs EXCEPT ![session_dir] = NoDir]
            /\ ret' = Response("delete_session", user_id, site_name, 200, "True")
       ELSE /\ ret' = Response("delete_session", user_id, site_name, 200, "False")
            /\ UNCHANGED fs
    /\ UNCHANGED <<invalidated, now, active_sessions, contexts, calls>>

(* ----------------------------- specification --------------------------- *)
\* The steps of the service when requests are made with the pairs keys and
\* listings are asked with the filters users.  An execute request carries a
\* message only for post_message, and the failures of the engine are those
\* met by get_profile: the other requests meet the same ones.
Step(keys, users) ==
    \/ Tick
    \/ \E dir \in DOMAIN fs : Tamper(dir)
    \/ \E k \in keys : CreateBegin(k[1], k[2])
    \/ \E i \in 1..Len(calls), login_url \in LoginUrls, outcome \in CreateOutcomes :
          CreateFinish(i, login_url, outcome)
    \/ \E k \in keys, d \in {0, 1}, save \in SaveOutcomes :
          ConfirmBegin(k[1], k[2], d, save)
    \/ \E i \in 1..Len(calls), closed \in BOOLEAN : ConfirmFinish(i, closed)
    \/ \E k \in keys : ExecuteBegin(k[1], k[2])
    \/ \E i \in 1..Len(calls), action_type \in ActionTypes, message \in Messages,
          engine \in EngineOutcomes, save \in SaveOutcomes :
          \E closed \in BOOLEAN :
             /\ action_type # "post_message" => message = ""
             /\ engine # "ok" => action_type = "get_profile"
             /\ ExecuteFinish(i, action_type, message, engine, save, closed)
    \/ \E k \in keys : DeleteSession(k[1], k[2])
    \/ \E user_id \in users : ListSessions(user_id)

Next == Step(Keys, UserFilters)

Spec == Init /\ [][Next]_vars

\* the service used with identifiers that contain the delimiter of the
\* directory names
NextListing == Step(ListingKeys, ListingFilters)

SpecListing == InitListing /\ [][NextListing]_vars

\* The expiration policy on its own: the service holds one session, last used
\* at any of LastUsedTimes, valid or invalidated, the clock stands at any of
\* ExpiryOffsets after that, and the two callers of _is_session_expired run.
InitExpiry ==
    /\ \E last_used \in LastUsedTimes, offset \in ExpiryOffsets, is_valid \in BOOLEAN :
          /\ now = last_used + offset
          /\ fs = [d \in { _get_session_dir(UserU, SiteW) } |->
                     SaveResult(NoDir,
                                [StoredMetadata(UserU, SiteW)
                                    EXCEPT !.last_used = last_used,
                                           !.is_valid = is_valid],
                                "ok")]
    /\ events = 0
    /\ active_sessions = [key \in { SessionKey(UserU, SiteW) } |-> 0]
    /\ contexts = <<>>
    /\ calls = <<>>
    /\ ret = NoResponse
    /\ invalidated = {}

NextExpiry ==
    \/ ExecuteBegin(UserU, SiteW)
    \/ ListSessions(<<>>)

SpecExpiry == InitExpiry /\ [][NextExpiry]_vars

\* The metadata store on its own: _save_session_metadata and
\* _load_session_metadata called for the pairs ListingKeys, with the metadata
\* the service builds for them (created_at <= last_used among StoreTimes, the
\* flag true or false), and the files changed from outside in between.
StoreMetadata ==
    { [StoredMetadata(k[1], k[2]) EXCEPT !.created_at = t[1], !.last_used = t[2],
                                         !.is_valid = v,
                                         !.session_data.confirmed_at = isoformat(t[1])] :
        k \in ListingKeys, v \in BOOLEAN,
        t \in { t \in StoreTimes \X StoreTimes : t[1] <= t[2] } }

SaveMetadata(metadata, outcome) ==
    LET session_dir == _get_session_dir(metadata.user_id, metadata.site_name) IN
    /\ Event(1)
    /\ fs' = [fs EXCEPT ![session_dir] = SaveResult(@, metadata, outcome)]
    /\ ret' = [op |-> "_save_session_metadata", user_id |-> metadata.user_id,
               site_name |-> metadata.site_name, metadata |-> metadata,
               raised |-> outcome # "ok"]
    /\ UNCHANGED <<invalidated, now, active_sessions, contexts, calls>>

LoadMetadata(user_id, site_name) ==
    /\ Event(1)
    /\ ret' = [op |-> "_load_session_metadata", user_id |-> user_id,
               site_name |-> site_name,
               result |-> _load_session_metadata(fs[_get_session_dir(user_id, site_name)])]
    /\ UNCHANGED <<invalidated, now, fs, active_sessions, contexts, calls>>

InitStore ==
    /\ now = 0
    /\ events = 0
    /\ fs = [d \in { _get_session_dir(k[1], k[2]) : k \in ListingKeys } |-> NoDir]
    /\ active_sessions = [key \in { SessionKey(k[1], k[2]) : k \in ListingKeys } |-> 0]
    /\ contexts = <<>>
    /\ calls = <<>>
    /\ ret = NoResponse
    /\ invalidated = {}

NextStore ==
    \/ \E metadata \in StoreMetadata, outcome \in SaveOutcomes :
          SaveMetadata(metadata, outcome)
    \/ \E k \in ListingKeys : LoadMetadata(k[1], k[2])
    \/ \E dir \in DOMAIN fs : Tamper(dir)

SpecStore == InitStore /\ [][NextStore]_vars

(* ------------------------------- claims -------------------------------- *)
DirOf(k) == _get_session_dir(k[1], k[2])
KeyOf(k) == SessionKey(k[1], k[2])

\* the response r answers the request op made with key k
Answers(r, op, k) == r.op = op /\ r.user_id = k[1] /\ r.site_name = k[2]

\* this step suspends a new call op made with key k
NewCall(op, k) ==
    /\ Len(calls') = Len(calls) + 1
    /\ calls'[Len(calls')].op = op
    /\ calls'[Len(calls')].user_id = k[1]
    /\ calls'[Len(calls')].site_name = k[2]

\* a request arrives in this step
Arrival == events' # events

\* a context that create_session opened for k is registered under k's key
PendingFor(k) ==
    /\ active_sessions[KeyOf(k)] # 0
    /\ contexts[active_sessions[KeyOf(k)]].user_data_dir = DirOf(k)

\* the metadata file of directory state dir decrypts, and its flag is value
PersistedFlagIs(dir, value) ==
    /\ _load_session_metadata(dir) # None
    /\ _load_session_metadata(dir).value.is_valid = value

\* C1: while a context opened by create(k) is registered for k, a create(k)
\* that returns has failed and has left that context registered.
C1_PendingNotReplaced ==
    [][\A k \in Keys :
         (PendingFor(k) /\ Answers(ret', "create_session", k))
         => /\ ret'.status_code # 200
            /\ active_sessions'[KeyOf(k)] = active_sessions[KeyOf(k)]]_vars

C3_DeleteDropsPending ==
    \A k \in Keys :
        Answers(ret, "delete_session", k)
        => /\ fs[DirOf(k)] = NoDir
           /\ ~PendingFor(k)

\* C4: no context opened by an execute_action that has returned is open.
C4_ExecuteClosesContext ==
    \A c \in 1..Len(contexts) :
        contexts[c].opened_by = "execute_action" => ~contexts[c].open

\* C5: the persisted validity flag of a session goes from false to true only
\* in a step in which confirm_login saves its metadata.
C5_InvalidationOneWay ==
    [][\A k \in Keys :
         (PersistedFlagIs(fs[DirOf(k)], FALSE) /\ PersistedFlagIs(fs'[DirOf(k)], TRUE))
         => NewCall("confirm_login", k)]_vars

\* C6: once an execute(k) has answered "Session invalid", no execute(k) that
\* arrives before the next confirm(k) gets past the check of the metadata.
C6_InvalidatedStaysRefused ==
    [][\A k \in Keys :
         (DirOf(k) \in invalidated /\ Arrival) => ~NewCall("execute_action", k)]_vars

\* C7: an execute(k) that arrives when k has no metadata file is answered 404
\* "Session not found"; one that arrives when the persisted flag is false or
\* now > last_used + TTL is answered 401; in both cases no context is opened,
\* no call is suspended and the disk stays as it is.
C7_ExecuteRefusals ==
    [][\A k \in Keys :
         (Arrival /\ (Answers(ret', "execute_action", k) \/ NewCall("execute_action", k)))
         => LET file == fs[DirOf(k)].metadata_file
                metadata == MetadataOf(file.encrypted_metadata.payload)
                refused == contexts' = contexts /\ calls' = calls /\ fs' = fs
            IN /\ file.kind = "absent"
                  => /\ Answers(ret', "execute_action", k)
                     /\ ret'.status_code = 404 /\ ret'.detail = "Session not found"
                     /\ refused
               /\ (/\ file.kind = "json"
                   /\ TokenValid(file.encrypted_metadata)
                   /\ (~metadata.is_valid \/ now > metadata.last_used + TTL))
                  => /\ Answers(ret', "execute_action", k)
                     /\ ret'.status_code = 401
                     /\ refused]_vars

\* an execute on a session whose flag is true and whose timeout has passed
\* has just been answered 401
C7_Witness ==
    \E k \in Keys :
        /\ Answers(ret, "execute_action", k)
        /\ ret.status_code = 401
        /\ PersistedFlagIs(fs[DirOf(k)], TRUE)
        /\ now > _load_session_metadata(fs[DirOf(k)]).value.last_used + TTL
        /\ contexts = <<>>

\* C8: an execute(k) is answered "Session not found" only when k has no
\* metadata file.
C8_CorruptIsNotAbsent ==
    \A k \in Keys :
        (Answers(ret, "execute_action", k) /\ ret.detail = "Session not found")
        => fs[DirOf(k)].metadata_file.kind = "absent"

\* C9: a create(k) that does not return session_created raises 500 "Failed to
\* create session", leaves no directory for k and registers no context.
C9_FailedCreateRollsBack ==
    [][\A k \in Keys :
         (Answers(ret', "create_session", k) /\ ret'.detail # "session_created")
         => /\ ret'.status_code = 500
            /\ ret'.detail = "Failed to create session"
            /\ ~fs'[DirOf(k)].exists
            /\ active_sessions' = active_sessions]_vars

\* a create whose navigation failed, after its context was opened, has just
\* been answered
C9_Witness ==
    \E k \in Keys :
        /\ Answers(ret, "create_session", k)
        /\ ret.status_code = 500
        /\ Len(contexts) > 0
        /\ contexts[Len(contexts)].opened_by = "create_session"
        /\ contexts[Len(contexts)].user_data_dir = DirOf(k)
        /\ contexts[Len(contexts)].open
        /\ active_sessions[KeyOf(k)] # Len(contexts)

\* C10: when confirm(k) has returned login_confirmed, k has persisted metadata
\* with the flag true and created_at = last_used, read during the confirm, and
\* no context is registered under k's key.
C10_ConfirmPersists ==
    \A k \in Keys :
        (Answers(ret, "confirm_login", k) /\ ret.status_code = 200)
        => /\ PersistedFlagIs(fs[DirOf(k)], TRUE)
           /\ LET metadata == _load_session_metadata(fs[DirOf(k)]).value
              IN metadata.created_at = metadata.last_used /\ metadata.last_used <= now
           /\ active_sessions[KeyOf(k)] = 0

C12_ExpiryBoundary ==
    LET metadata == _load_session_metadata(fs[_get_session_dir(UserU, SiteW)]).value
        age == now - metadata.last_used
        expired == IF ret.op = "list_sessions"
                   THEN \A e \in BagToSet(ret.sessions) : e.is_expired
                   ELSE ret.status_code = 401
    IN (ret.op = "list_sessions" \/ (ret.op = "execute_action" /\ calls = <<>>))
       => /\ TTL = 168 * 3600
          /\ ret.op = "list_sessions" => BagCardinality(ret.sessions) = 1
          /\ expired <=> (~metadata.is_valid \/ age > TTL)
          /\ (metadata.is_valid /\ age \in {0, TTL - 1, TTL}) => ~expired
          /\ (metadata.is_valid /\ age \in {TTL + 1, 2 * TTL}) => expired
          /\ ~metadata.is_valid => expired

\* a listing taken exactly TTL after the last use shows a valid session as
\* not expired
C12_Witness ==
    LET metadata == _load_session_metadata(fs[_get_session_dir(UserU, SiteW)]).value
    IN /\ ret.op = "list_sessions"
       /\ DOMAIN fs = { _get_session_dir(UserU, SiteW) }
       /\ metadata.is_valid
       /\ now = metadata.last_used + TTL
       /\ metadata.last_used = 86400
       /\ \A e \in BagToSet(ret.sessions) : ~e.is_expired
       /\ BagCardinality(ret.sessions) = 1

\* C13: an execute_action that got past the checks of the session, for an
\* action type _perform_action has no branch for, fails, and its failure is
\* neither the 500 "Action failed" of a failed action nor the 401 of an
\* expired or invalid session.
C13_UnknownActionDistinct ==
    (/\ ret.op = "execute_action"
     /\ "action_type" \in DOMAIN ret
     /\ ret.action_type \notin HandledActionTypes)
    => /\ ret.status_code # 200
       /\ ~(ret.status_code = 500 /\ ret.detail = "Action failed")
       /\ ret.status_code # 401

\* k has an entry in the listing of all sessions
Listed(k) ==
    \E e \in BagToSet(list_sessions({name \in DOMAIN fs : fs[name].exists}, <<>>)) :
        e.user_id = k[1] /\ e.site_name = k[2]

\* C14: a delete(k) does not fail; it returns true exactly when k had a
\* directory on disk; after it k has no directory and no entry in a listing
\* (so a delete(k) repeated at once returns false).
C14_DeleteReturns ==
    /\ [][\A k \in Keys :
            Answers(ret', "delete_session", k)
            => /\ ret'.http_status = 200
               /\ (ret'.detail = "True") <=> fs[DirOf(k)].exists
               /\ ret'.detail \in {"True", "False"}
               /\ fs'[DirOf(k)] = NoDir]_vars
    /\ [](\A k \in Keys : Answers(ret, "delete_session", k) => ~Listed(k))

\* the entries a listing with the filter user_id owes to the sessions of
\* keys: one for every key whose metadata loads and whose user passes
ExpectedListing(keys, user_id) ==
    SetToBag({ ListEntry(_load_session_metadata(fs[DirOf(k)]).value, now) :
                 k \in { k \in keys : /\ _load_session_metadata(fs[DirOf(k)]) # None
                                      /\ user_id = <<>> \/ user_id = k[1] } })

\* C15: a listing has exactly one entry for every session on disk whose
\* metadata loads (of the filter's user, when there is a filter), with that
\* session's user, site, is_valid and is_expired, also for identifiers that
\* contain '_'.
C15_ListingComplete ==
    ret.op = "list_sessions"
    => ret.sessions = ExpectedListing(ListingKeys, ret.user_id)

\* the failure a response reports, by the names of the specification; "none"
\* for a response that reports none of them
FailureKind(r) ==
    IF r.op = "confirm_login" /\ r.status_code = 404 THEN "NoActiveSession"
    ELSE IF r.op = "create_session" /\ r.status_code = 500 THEN "CreateFailed"
    ELSE IF r.op # "execute_action" THEN "none"
    ELSE IF r.status_code = 404 THEN "SessionNotFound"
    ELSE IF r.status_code = 401 THEN "SessionExpired"
    ELSE IF r.status_code # 500 THEN "none"
    ELSE IF r.text[1] = "Unknown action type: " THEN "UnknownAction"
    ELSE "ActionFailed"

\* C16: two responses in a row that report failures of different kinds carry
\* different HTTP statuses; so an execute_action on a session that never
\* existed and one on an expired or invalidated session are told apart by
\* the status.
C16_StatusPerFailureKind ==
    [][(/\ FailureKind(ret) # "none"
        /\ FailureKind(ret') # "none"
        /\ FailureKind(ret) # FailureKind(ret'))
       => ret.http_status # ret'.http_status]_vars

\* C17: a load of k that follows a save of m for k that returned, with no
\* write to k in between, returns m, equal field by field; and the file the
\* save leaves loads as m.
C17_RoundTrip ==
    /\ [][(/\ ret.op = "_save_session_metadata" /\ ~ret.raised
            /\ ret'.op = "_load_session_metadata"
            /\ ret'.user_id = ret.user_id /\ ret'.site_name = ret.site_name)
           => /\ ret'.result # None
              /\ \A f \in {"user_id", "site_name", "created_at", "last_used",
                            "is_valid", "session_data"} :
                    ret'.result.value[f] = ret.metadata[f]]_vars
    /\ []((ret.op = "_save_session_metadata" /\ ~ret.raised)
           => _load_session_metadata(fs[_get_session_dir(ret.user_id, ret.site_name)])
                = Some(ret.metadata))

\* metadata with timestamps that have minutes and seconds, for a user with
\* '_' in the name, has just been loaded back after its save
C17_Witness ==
    /\ ret.op = "_load_session_metadata"
    /\ ret.user_id = UserU_V
    /\ ret.result # None
    /\ ret.result.value.created_at = 3599
    /\ ret.result.value.last_used = 86461
    /\ ~ret.result.value.is_valid
    /\ events = 2

\* C18: the metadata file of k comes into being only in a step in which
\* confirm_login saves it; an execute(k) that overlaps a delete(k) does not
\* bring the directory or the metadata back.
C18_ConfirmAloneCreates ==
    [][\A k \in Keys :
         (/\ fs[DirOf(k)].metadata_file.kind = "absent"
          /\ fs'[DirOf(k)].metadata_file.kind = "json")
         => NewCall("confirm_login", k)]_vars

\* C19: no step of a create(k), whether the create succeeds or fails, and no
\* listing changes or removes the metadata file persisted for k.
C19_CreateAndListKeepMetadata ==
    [][\A k \in Keys :
         (\/ NewCall("create_session", k)
          \/ Answers(ret', "create_session", k)
          \/ ret'.op = "list_sessions")
         => fs'[DirOf(k)].metadata_file = fs[DirOf(k)].metadata_file]_vars

\* C20: whatever step a save of confirm_login or execute_action fails at, the
\* metadata file of the session is afterwards absent or complete (the
\* content before the save, or the new content), never cut short.
C20_SaveIsAtomic ==
    \A k \in Keys : fs[DirOf(k)].metadata_file.kind \in {"absent", "json"}

\* a confirm(k) is suspended at its await
ConfirmSuspended(k) ==
    \E i \in 1..Len(calls) :
        /\ calls[i].op = "confirm_login"
        /\ calls[i].user_id = k[1]
        /\ calls[i].site_name = k[2]

\* C21: a confirm(k) that arrives while another confirm(k) is under way is
\* answered 404 "No active session found", writes no metadata and does not
\* touch the context: of two confirms that overlap after one create, one
\* alone persists and succeeds.
C21_ConfirmsDoNotOverlap ==
    [][\A k \in Keys :
         (/\ ConfirmSuspended(k)
          /\ Arrival
          /\ NewCall("confirm_login", k) \/ Answers(ret', "confirm_login", k))
         => /\ Answers(ret', "confirm_login", k)
            /\ ret'.status_code = 404
            /\ ret'.detail = "No active session found"
            /\ fs' = fs
            /\ contexts' = contexts
            /\ calls' = calls]_vars

\* this step belongs to a request made with key k: the request arrives, is
\* suspended, or is answered
StepOf(k) ==
    \E op \in {"create_session", "confirm_login", "execute_action", "delete_session"} :
        NewCall(op, k) \/ Answers(ret', op, k)

\* C22: for two distinct (user, site) pairs, a step of a create, confirm,
\* execute or delete on the first leaves the entry of the pending map, the
\* directory and the metadata of the second as they were, and the two have
\* different directories.
C22_KeysIndependent ==
    [][\A k, other \in Keys :
         (k # other /\ StepOf(k) /\ ~StepOf(other))
         => /\ active_sessions'[KeyOf(other)] = active_sessions[KeyOf(other)]
            /\ fs'[DirOf(other)] = fs[DirOf(other)]
            /\ DirOf(k) # DirOf(other)]_vars

\* C23: an execute(k) for an action type that has no handler, which fails
\* before the browser is asked for anything, is answered 500 "Action failed"
\* and leaves the persisted validity flag of k as it was, whatever the text
\* of the action type.
C23_OnlyTransportInvalidates ==
    [][\A k \in Keys :
         (/\ Answers(ret', "execute_action", k)
          /\ "action_type" \in DOMAIN ret'
          /\ ret'.action_type \notin HandledActionTypes)
         => /\ ret'.status_code = 500
            /\ ret'.detail = "Action failed"
            /\ ~(/\ PersistedFlagIs(fs[DirOf(k)], TRUE)
                 /\ PersistedFlagIs(fs'[DirOf(k)], FALSE))]_vars

\* C24: every metadata file on disk that loads has created_at <= last_used,
\* whatever confirms, executes (completed, failed or invalidating), deletes
\* and creates have run, the clock never going back.
C24_CreatedBeforeLastUsed ==
    \A k \in Keys :
        _load_session_metadata(fs[DirOf(k)]) # None
        => LET metadata == _load_session_metadata(fs[DirOf(k)]).value
           IN metadata.created_at <= metadata.last_used

\* a session confirmed earlier has just had its last_used refreshed by an
\* execute, after the clock advanced
C24_Witness ==
    \E k \in Keys :
        /\ Answers(ret, "execute_action", k)
        /\ ret.status_code = 200
        /\ _load_session_metadata(fs[DirOf(k)]) # None
        /\ _load_session_metadata(fs[DirOf(k)]).value.created_at < now
        /\ _load_session_metadata(fs[DirOf(k)]).value.last_used = now
        /\ now >= TTL

====
